---- MODULE Spec2Model ----
(***************************************************************************)
(* Model of the file intake pipeline of KhoaTr197/file-uploader:           *)
(*   - FileValidator / ValidationRule   (src/src/lib/core/validator.ts)    *)
(*   - FileProcessor and its hook pipeline (src/src/lib/core/processor.ts) *)
(* Strings that the code inspects character by character (file names,      *)
(* MIME types, extensions) are sequences of UTF-16 code units.  Messages    *)
(* are sequences of tokens, so that join and interpolation are computed;    *)
(* their Vietnamese literals are written without diacritics.                *)
(***************************************************************************)
EXTENDS Integers, Sequences, FiniteSets, TLC

VARIABLES
    config,      \* FileProcessor.config: the partial configuration, as given
    validator,   \* FileValidator.config: the resolved configuration
    supplied,    \* history: constructor argument overlaid with every updateConfig argument
    plugins,     \* FileProcessor.plugins, in registration order
    last,        \* the last direct call on an object: op, input, returned value
    call,        \* the top-level processor call in flight: "idle", "process", "processMany"
    pipes,       \* one record per started process(file) call
    batch,       \* the promise returned by processMany
    idCount,     \* number of ids handed out by generateUUID
    previews,    \* ImagePreviewPlugin.previews: entries {id, canvas} in creation order
    canvases     \* the canvas elements created so far: width and height of each

vars == <<config, validator, supplied, plugins, last, call, pipes, batch, idCount,
          previews, canvases>>

(***************************************************************************)
(* Bounds                                                                  *)
(***************************************************************************)
MaxBatch == 2
MaxPlugins == 3
MaxCalls == 4
MaxPreviews == 3

(***************************************************************************)
(* Strings                                                                 *)
(***************************************************************************)
Code ==
    ("a" :> 97) @@ ("b" :> 98) @@ ("e" :> 101) @@ ("g" :> 103) @@ ("i" :> 105) @@
    ("l" :> 108) @@ ("m" :> 109) @@ ("n" :> 110) @@ ("p" :> 112) @@ ("t" :> 116) @@
    ("x" :> 120) @@ ("G" :> 71) @@ ("N" :> 78) @@ ("P" :> 80) @@
    ("." :> 46) @@ ("/" :> 47) @@ ("*" :> 42) @@ ("<" :> 60) @@ (" " :> 32) @@
    ("o" :> 111) @@ ("US" :> 31)

Str(chars) == [i \in DOMAIN chars |-> Code[chars[i]]]

Repeat(c, n) == [i \in 1..n |-> c]

SubStr(s, from, to) == [i \in 1..(to - from + 1) |-> s[from + i - 1]]

StartsWith(s, prefix) ==
    /\ Len(prefix) <= Len(s)
    /\ SubStr(s, 1, Len(prefix)) = prefix

EndsWith(s, suffix) ==
    /\ Len(suffix) <= Len(s)
    /\ SubStr(s, Len(s) - Len(suffix) + 1, Len(s)) = suffix

\* String.prototype.replace with a string pattern: the first occurrence only.
Replace(s, pattern, by) ==
    LET hits == {i \in 1..(Len(s) - Len(pattern) + 1) :
                    SubStr(s, i, i + Len(pattern) - 1) = pattern}
    IN IF hits = {} THEN s
       ELSE LET i == CHOOSE h \in hits : \A k \in hits : h <= k
            IN SubStr(s, 1, i - 1) \o by \o SubStr(s, i + Len(pattern), Len(s))

ToLowerCase(s) == [i \in DOMAIN s |-> IF s[i] \in 65..90 THEN s[i] + 32 ELSE s[i]]

Includes(list, x) == \E i \in DOMAIN list : list[i] = x

\* utils.getExtension: the text after the last dot, lowercased, empty without a dot.
getExtension(name) ==
    LET dots == {i \in DOMAIN name : name[i] = Code["."]}
    IN IF dots = {} THEN <<>>
       ELSE LET d == CHOOSE i \in dots : \A k \in dots : k <= i
            IN ToLowerCase(SubStr(name, d + 1, Len(name)))

(***************************************************************************)
(* Messages: sequences of tokens, a literal text or an interpolated string. *)
(***************************************************************************)
Lit(text) == [lit |-> text, val |-> <<>>]
Val(codes) == [lit |-> "", val |-> codes]

NullMessage == <<>>

RECURSIVE Join(_, _)
Join(parts, sep) ==
    IF parts = <<>> THEN <<>>
    ELSE IF Len(parts) = 1 THEN parts[1]
    ELSE parts[1] \o <<Lit(sep)>> \o Join(Tail(parts), sep)

JoinStrings(strings, sep) == Join([i \in DOMAIN strings |-> <<Val(strings[i])>>], sep)

ByteUnits == <<"Bytes", "KB", "MB", "GB">>

RECURSIVE Pow(_, _)
Pow(b, e) == IF e = 0 THEN 1 ELSE b * Pow(b, e - 1)

\* utils.formatBytes: a human-readable quantity, two decimals in the largest unit.
formatBytes(bytes) ==
    IF bytes = 0 THEN <<Lit("0 Bytes")>>
    ELSE LET i == CHOOSE k \in 0..(Len(ByteUnits) - 1) :
                      /\ Pow(1024, k) <= bytes
                      /\ (k = Len(ByteUnits) - 1 \/ bytes < Pow(1024, k + 1))
             hundredths == (bytes * 100) \div Pow(1024, i)
         IN <<Lit(ToString(hundredths \div 100) \o "." \o ToString(hundredths % 100)
                   \o " " \o ByteUnits[i + 1])>>

(***************************************************************************)
(* Configuration                                                           *)
(* A partial configuration is a function whose domain is the set of fields *)
(* the caller set; the resolved configuration has every field.             *)
(***************************************************************************)
EmptyConfig == [k \in {} |-> 0]

Has(c, field) == field \in DOMAIN c

\* { ...base, ...over }
Spread(base, over) == over @@ base

\* c[field] || default, for a number
OrNumber(c, field, default) ==
    IF Has(c, field) /\ c[field] # 0 THEN c[field] ELSE default

\* c[field] || default, for an array (every array is truthy)
OrArray(c, field, default) ==
    IF Has(c, field) THEN c[field] ELSE default

\* c[field] || default, for a boolean
OrBoolean(c, field, default) ==
    IF Has(c, field) /\ c[field] = TRUE THEN c[field] ELSE default

DefaultMaxSize == 10 * Pow(1024, 2)

NewFileValidator(c) ==
    [maxSize           |-> OrNumber(c, "maxSize", DefaultMaxSize),
     minSize           |-> OrNumber(c, "minSize", 0),
     allowedTypes      |-> OrArray(c, "allowedTypes", <<>>),
     allowedExtensions |-> OrArray(c, "allowedExtensions", <<>>),
     maxFiles          |-> OrNumber(c, "maxFiles", 1),
     validateFileName  |-> OrBoolean(c, "validateFileName", TRUE),
     customValidators  |-> OrArray(c, "customValidators", <<>>)]

(***************************************************************************)
(* Validation rules                                                        *)
(***************************************************************************)
MaxNameLength == 255

\* the size rule with exclusive bounds
fileSizeValidateExclusive(file, cfg) == file.size < cfg.maxSize /\ file.size > cfg.minSize

fileSizeValidate(file, cfg) == file.size <= cfg.maxSize /\ file.size >= cfg.minSize

fileSizeMessage(file, cfg) ==
    <<Lit("Kich thuoc file phai nam trong khoang tu ")>> \o formatBytes(cfg.minSize)
        \o <<Lit(" den ")>> \o formatBytes(cfg.maxSize)

TypeMatches(fileType, type) ==
    IF EndsWith(type, Str(<<"/", "*">>))
    THEN StartsWith(fileType, Replace(type, Str(<<"/", "*">>), <<>>))
    ELSE fileType = type

fileTypeValidate(file, cfg) ==
    IF Len(cfg.allowedTypes) = 0 THEN TRUE
    ELSE \E i \in DOMAIN cfg.allowedTypes : TypeMatches(file.type, cfg.allowedTypes[i])

fileTypeMessage(file, cfg) ==
    <<Lit("Loai file \""), Val(file.type),
      Lit("\" khong hop le. Cac loai duoc chap nhan: ")>>
        \o JoinStrings(cfg.allowedTypes, ", ")

\* the extension rule without toLowerCase on the allowed entries
fileExtensionValidateAsWritten(file, cfg) ==
    IF Len(cfg.allowedExtensions) = 0 THEN TRUE
    ELSE Includes(cfg.allowedExtensions, getExtension(file.name))

fileExtensionValidate(file, cfg) ==
    IF Len(cfg.allowedExtensions) = 0 THEN TRUE
    ELSE Includes([i \in DOMAIN cfg.allowedExtensions |-> ToLowerCase(cfg.allowedExtensions[i])],
                  getExtension(file.name))

fileExtensionMessage(file, cfg) ==
    <<Lit("Phan dinh dang file khong hop le. Chi chap nhan: ")>>
        \o JoinStrings(cfg.allowedExtensions, ", ")

\* /[<>:"|?*\x00-\x1F]/
InvalidChars == {60, 62, 58, 34, 124, 63, 42} \cup (0..31)

fileNameValidate(file, cfg) ==
    IF ~cfg.validateFileName THEN TRUE
    ELSE /\ ~(\E i \in DOMAIN file.name : file.name[i] \in InvalidChars)
         /\ Len(file.name) > 0
         /\ Len(file.name) < MaxNameLength

fileNameMessage(file, cfg) ==
    <<Lit("Ten file khong hop le. Chua ky tu khong cho phep hoac do dai khong phu hop.")>>

\* FileValidator.rules, as built by _initRules
Rules == <<"fileSize", "fileType", "fileExtension", "fileName">>

RuleValidate(rule, file, cfg) ==
    CASE rule = "fileSize"      -> fileSizeValidate(file, cfg)
      [] rule = "fileType"      -> fileTypeValidate(file, cfg)
      [] rule = "fileExtension" -> fileExtensionValidate(file, cfg)
      [] rule = "fileName"      -> fileNameValidate(file, cfg)

RuleMessage(rule, file, cfg) ==
    CASE rule = "fileSize"      -> fileSizeMessage(file, cfg)
      [] rule = "fileType"      -> fileTypeMessage(file, cfg)
      [] rule = "fileExtension" -> fileExtensionMessage(file, cfg)
      [] rule = "fileName"      -> fileNameMessage(file, cfg)

\* ValidationRule.check
Check(rule, file, cfg) ==
    LET result == RuleValidate(rule, file, cfg)
    IN [file    |-> file.name,
        valid   |-> result,
        rule    |-> rule,
        message |-> IF result THEN NullMessage ELSE RuleMessage(rule, file, cfg)]

\* The first loop of validateFile, over this.rules from index i on.
RECURSIVE RuleErrors(_, _, _)
RuleErrors(i, file, cfg) ==
    IF i > Len(Rules) THEN <<>>
    ELSE LET result == Check(Rules[i], file, cfg)
         IN (IF ~result.valid
             THEN <<[valid |-> FALSE, rule |-> result.rule,
                     message |-> result.message, file |-> file.name]>>
             ELSE <<>>)
            \o RuleErrors(i + 1, file, cfg)

\* A custom validator function is one of three behaviours.
CustomResult(fn, file) ==
    CASE fn = "accept"  -> [kind |-> "boolean", bool |-> TRUE,  text |-> ""]
      [] fn = "refuse"  -> [kind |-> "boolean", bool |-> FALSE, text |-> ""]
      [] fn = "explain" -> [kind |-> "string",  bool |-> FALSE, text |-> "custom rule failed"]

IsTrue(result) == result.kind = "boolean" /\ result.bool

\* The custom validators the second loop of validateFile calls, from index i on.
RECURSIVE CustomCalls(_, _, _)
CustomCalls(i, file, cfg) ==
    IF i > Len(cfg.customValidators) THEN <<>>
    ELSE IF file.type # cfg.customValidators[i].type THEN <<>>    \* break
    ELSE <<cfg.customValidators[i]>> \o CustomCalls(i + 1, file, cfg)

\* the second loop with "if (result === false)": a string result is taken as a pass
RECURSIVE CustomErrorsOnlyFalse(_, _, _)
CustomErrorsOnlyFalse(i, file, cfg) ==
    IF i > Len(cfg.customValidators) THEN <<>>
    ELSE LET v == cfg.customValidators[i]
         IN IF file.type # v.type THEN <<>>
            ELSE LET result == CustomResult(v.fn, file)
                 IN (IF result.kind = "boolean" /\ ~result.bool
                     THEN <<[valid |-> FALSE, rule |-> "custom",
                             message |-> <<Lit("Kiem tra hop le tuy chinh that bai")>>,
                             file |-> file.name]>>
                     ELSE <<>>)
                    \o CustomErrorsOnlyFalse(i + 1, file, cfg)

\* The second loop of validateFile, over config.customValidators from index i on.
RECURSIVE CustomErrors(_, _, _)
CustomErrors(i, file, cfg) ==
    IF i > Len(cfg.customValidators) THEN <<>>
    ELSE LET v == cfg.customValidators[i]
         IN IF file.type # v.type THEN <<>>    \* break
            ELSE LET result == CustomResult(v.fn, file)
                 IN (IF ~IsTrue(result)
                     THEN <<[valid |-> FALSE, rule |-> "custom",
                             message |-> IF result.kind = "string"
                                         THEN <<Lit(result.text)>>
                                         ELSE <<Lit("Kiem tra hop le tuy chinh that bai")>>,
                             file |-> file.name]>>
                     ELSE <<>>)
                    \o CustomErrors(i + 1, file, cfg)

ValidateFile(file, cfg) ==
    LET errors == RuleErrors(1, file, cfg) \o CustomErrors(1, file, cfg)
    IN [valid |-> Len(errors) = 0, errors |-> errors, file |-> file]

RECURSIVE FlatMapErrors(_)
FlatMapErrors(results) ==
    IF results = <<>> THEN <<>>
    ELSE Head(results).errors \o FlatMapErrors(Tail(results))

\* The files validateFiles passes to validateFile, in call order.
ValidateFilesCalls(files, cfg) ==
    IF Len(files) > cfg.maxFiles THEN <<>> ELSE files

\* validateFiles without the test of the number of files
ValidateFilesUnlimited(files, cfg) ==
    LET results == [i \in DOMAIN files |-> ValidateFile(files[i], cfg)]
    IN [valid   |-> \A i \in DOMAIN results : results[i].valid,
        errors  |-> FlatMapErrors(results),
        results |-> results]

ValidateFiles(files, cfg) ==
    IF Len(files) > cfg.maxFiles
    THEN [valid  |-> FALSE,
          errors |-> <<[rule    |-> "maxFiles",
                        message |-> <<Lit("Chi duoc chon toi da "),
                                      Lit(ToString(cfg.maxFiles)),
                                      Lit(" file. Ban da chon "),
                                      Lit(ToString(Len(files))),
                                      Lit(" file.")>>,
                        file    |-> Str(<<"n", "o", "n", "e">>)]>>]
    ELSE LET calls   == ValidateFilesCalls(files, cfg)
             results == [i \in DOMAIN calls |-> ValidateFile(calls[i], cfg)]
         IN [valid   |-> \A i \in DOMAIN results : results[i].valid,
             errors  |-> FlatMapErrors(results),
             results |-> results]

(***************************************************************************)
(* Inputs                                                                  *)
(***************************************************************************)
ImagePng   == Str(<<"i", "m", "a", "g", "e", "/", "p", "n", "g">>)
ImageAny   == Str(<<"i", "m", "a", "g", "e", "/", "*">>)
ImagexPng  == Str(<<"i", "m", "a", "g", "e", "x", "/", "p", "n", "g">>)
TextPlain  == Str(<<"t", "e", "x", "t", "/", "p", "l", "a", "i", "n">>)
ExtPng     == Str(<<"p", "n", "g">>)
ExtPNG     == Str(<<"P", "N", "G">>)

File(name, size, type) ==
    [name |-> name, size |-> size, type |-> type, lastModified |-> 1 + size,
     content |-> <<name>>]

FilePng    == File(Str(<<"a", ".", "p", "n", "g">>), 500, ImagePng)
FileTxt    == File(Str(<<"a", ".", "t", "x", "t">>), 500, TextPlain)
FileBig    == File(Str(<<"b", ".", "p", "n", "g">>), 1001, ImagePng)
FileBad    == File(Str(<<"a", "<", "b", ".", "t", "x", "t">>), 1001, TextPlain)

Files ==
    {FilePng, FileTxt, FileBig, FileBad,
     File(Str(<<"a", ".", "p", "n", "g">>), 499, ImagePng),
     File(Str(<<"a", ".", "P", "N", "G">>), 1000, ImagePng),
     File(Str(<<"a", ".", "p", "n", "g">>), 500, ImagexPng),
     File(Str(<<"a", ".", "p", "n", "g">>), 500, <<>>),
     File(Str(<<"a", "<", "b", ".", "p", "n", "g">>), 500, ImagePng),
     File(Str(<<"a", "US", "b">>), 500, TextPlain),
     File(Str(<<"a", " ", "b", ".", "t", "x", "t">>), 500, TextPlain),
     File(<<>>, 0, TextPlain),
     File(Str(<<"a", ".", "t", "x", "t", ".", "P", "n", "g">>), 500, ImagePng),
     File(Repeat(Code["a"], MaxNameLength - 1), DefaultMaxSize, ImagePng),
     File(Repeat(Code["a"], MaxNameLength), DefaultMaxSize + 1, ImagePng)}

BatchFiles == {FilePng, FileTxt, FileBig}

SeqsUpTo(S, n) == UNION {[1..k -> S] : k \in 0..n}

CustomValidator(type, fn) == [type |-> type, fn |-> fn]

UserConfigs ==
    {EmptyConfig,
     [maxSize |-> 1000, allowedExtensions |-> <<ExtPng>>],
     [maxSize |-> 1000, minSize |-> 500, maxFiles |-> 2],
     [allowedTypes |-> <<ImageAny>>, maxFiles |-> 2],
     [allowedTypes |-> <<TextPlain, ImagePng>>, allowedExtensions |-> <<ExtPNG>>],
     [validateFileName |-> FALSE],
     [validateFileName |-> TRUE, maxFiles |-> 3],
     [customValidators |-> <<CustomValidator(TextPlain, "refuse"),
                             CustomValidator(ImagePng, "explain")>>,
      maxFiles |-> 2],
     [customValidators |-> <<CustomValidator(ImagePng, "accept"),
                             CustomValidator(ImagePng, "explain"),
                             CustomValidator(ImagePng, "refuse")>>],
     [maxSize |-> 0, minSize |-> 0, maxFiles |-> 0]}

ConfigUpdates ==
    {[validateFileName |-> FALSE],
     [maxSize |-> 1000, minSize |-> 500],
     [maxFiles |-> 2]}

(***************************************************************************)
(* The FileValidator as an object: construction and its three methods      *)
(***************************************************************************)
NoCall == [op |-> "none"]
NoBatch == [status |-> "none", files |-> <<>>, order |-> <<>>, results |-> <<>>, error |-> <<>>]

InitValidator ==
    /\ config \in UserConfigs
    /\ validator = NewFileValidator(config)
    /\ supplied = config
    /\ plugins = <<>>
    /\ last = NoCall
    /\ call = "idle"
    /\ pipes = <<>>
    /\ batch = NoBatch
    /\ idCount = 0
    /\ previews = <<>>
    /\ canvases = <<>>

\* FileValidator.updateConfig
ValidatorUpdateConfig(newConfig) ==
    /\ validator' = Spread(validator, newConfig)
    /\ supplied' = Spread(supplied, newConfig)
    /\ UNCHANGED <<config, plugins, last, call, pipes, batch, idCount, previews, canvases>>

ValidateFileCall(file) ==
    /\ last' = [op |-> "validateFile", file |-> file, config |-> validator,
                result |-> ValidateFile(file, validator)]
    /\ UNCHANGED <<config, validator, supplied, plugins, call, pipes, batch, idCount, previews, canvases>>

ValidateFilesCall(files) ==
    /\ last' = [op |-> "validateFiles", files |-> files, config |-> validator,
                calls |-> ValidateFilesCalls(files, validator),
                result |-> ValidateFiles(files, validator)]
    /\ UNCHANGED <<config, validator, supplied, plugins, call, pipes, batch, idCount, previews, canvases>>

NextValidator ==
    \/ \E newConfig \in ConfigUpdates : ValidatorUpdateConfig(newConfig)
    \/ \E file \in Files : ValidateFileCall(file)
    \/ \E files \in SeqsUpTo(BatchFiles, MaxBatch) : ValidateFilesCall(files)

SpecValidator == InitValidator /\ [][NextValidator]_vars

(***************************************************************************)
(* Plugins                                                                 *)
(* A plugin is a record of hook slots.  A slot is "none" (the plugin does   *)
(* not define the hook), "void" (the hook returns nothing), "return" (the   *)
(* hook returns a value) or "throw" (the hook raises).                      *)
(***************************************************************************)
Stages == <<"beforeValidation", "afterValidation", "beforeProcess", "afterProcess">>
HookNames == {Stages[i] : i \in DOMAIN Stages}

Plugin(name, bv, av, bp, ap) ==
    [name |-> name, beforeValidation |-> bv, afterValidation |-> av,
     beforeProcess |-> bp, afterProcess |-> ap, onError |-> "none"]

WithOnError(plugin) == [plugin EXCEPT !.onError = "void"]

PluginA == WithOnError(Plugin("A", "void",   "none",   "return", "none"))
PluginB == Plugin("B", "none",   "void",   "return", "return")
PluginC == Plugin("C", "return", "return", "return", "void")
PluginN == Plugin("N", "none",   "none",   "void",   "none")
PluginX == WithOnError(Plugin("X", "none",   "throw",  "none",   "none"))
PluginY == Plugin("Y", "throw",  "none",   "none",   "none")
PluginZ == Plugin("Z", "none",   "none",   "throw",  "void")
PluginW == Plugin("W", "none",   "void",   "none",   "throw")

PluginT == Plugin("T", "none",   "none",   "throwText", "none")

PluginPool == {PluginA, PluginB, PluginC, PluginN, PluginX, PluginY, PluginZ, PluginW}

\* What a hook that returns a value returns, from the arguments it was given.
HookReturn(hook, plugin, args) ==
    CASE hook = "beforeProcess" ->
            [content |-> args[1].content \o <<plugin.name>>,
             size    |-> args[1].size + 1,
             type    |-> args[1].type]
      [] hook = "afterProcess" ->
            [args[1] EXCEPT !.metadata = (plugin.name :> "added") @@ @]
      [] OTHER -> [returnedBy |-> plugin.name, hook |-> hook]

HookError(hook, plugin) ==
    [kind |-> "HookFailure", message |-> <<Lit(hook), Lit(plugin.name)>>]

\* new Error(`Kiem tra hop le that bai: ${errors.map(e => e.message).join(', ')}`)
ValidationError(errors) ==
    [kind    |-> "ValidationFailed",
     message |-> <<Lit("Kiem tra hop le that bai: ")>>
                     \o Join([i \in DOMAIN errors |-> errors[i].message], ", ")]

\* FileProcessor.generateUUID: a value not handed out before.
generateUUID(count) == count + 1

\* FileProcessor.extractMetadata
extractMetadata(file, count) ==
    [id           |-> generateUUID(count),
     name         |-> file.name,
     size         |-> file.size,
     type         |-> file.type,
     lastModified |-> file.lastModified,
     extension    |-> getExtension(file.name)]

(***************************************************************************)
(* FileProcessor.runHook                                                   *)
(* A pipe is one process(file) call.  While it is inside runHook, pc is the *)
(* hook name, arr the array the loop iterates, idx the next index of the    *)
(* loop, args the argument list and result the value runHook will return.   *)
(* shared tells whether arr is still the array object this.plugins refers   *)
(* to, and awaiting is the index of the plugin whose hook has been called   *)
(* and has not settled (0 when none).  registered is history: the plugin    *)
(* list when the stage began.                                               *)
(***************************************************************************)
\* runHook that keeps its argument list in a field of the processor, which
\* another call inside the same hook stage has already set
EnterHookSharedArgs(pipe, hookName, args) ==
    LET others == {j \in DOMAIN pipes : pipes[j].pc = hookName /\ pipes[j].file # pipe.file}
        shared == IF others = {} THEN args
                  ELSE pipes[CHOOSE j \in others : TRUE].args
    IN [pipe EXCEPT !.pc = hookName, !.args = shared, !.result = shared[1],
                    !.arr = plugins, !.shared = TRUE, !.idx = 1, !.awaiting = 0,
                    !.registered = plugins]

\* runHook(hookName, ...args), up to the loop
EnterHook(pipe, hookName, args) ==
    [pipe EXCEPT !.pc = hookName, !.args = args, !.result = args[1],
                 !.arr = plugins, !.shared = TRUE, !.idx = 1, !.awaiting = 0,
                    !.registered = plugins]

\* The index of the next plugin of the loop that defines the hook.
NextHook(pipe) ==
    LET rest == {j \in pipe.idx..Len(pipe.arr) : pipe.arr[j][pipe.pc] # "none"}
    IN IF rest = {} THEN Len(pipe.arr) + 1
       ELSE CHOOSE j \in rest : \A k \in rest : j <= k

InHook(pipe) == pipe.pc \in HookNames

\* What a hook does for a file: "throwText" is a hook that raises for a
\* text/plain file and returns nothing for any other.
Behaviour(slot, file) ==
    IF slot = "throwText"
    THEN IF file.type = TextPlain THEN "throw" ELSE "void"
    ELSE slot

\* runHook without "args[0] = returned": every hook is handed the first argument.
RunHookStepStaleArgs(pipe) ==
    LET j      == NextHook(pipe)
        plugin == pipe.arr[j]
        does   == Behaviour(plugin[pipe.pc], pipe.file)
        called == [pipe EXCEPT !.log = Append(@, [event  |-> pipe.pc,
                                                   plugin |-> plugin.name,
                                                   args   |-> pipe.args])]
    IN CASE does = "void" ->
               [called EXCEPT !.idx = j + 1]
         [] does = "return" ->
               [called EXCEPT !.idx = j + 1,
                              !.result = HookReturn(pipe.pc, plugin, pipe.args)]
         [] does = "throw" ->
               [called EXCEPT !.pc = "rejected",
                              !.error = <<HookError(pipe.pc, plugin)>>]

\* One iteration of the loop of runHook that calls a hook and takes its return.
RunHookStep(pipe) ==
    LET j      == NextHook(pipe)
        plugin == pipe.arr[j]
        does   == Behaviour(plugin[pipe.pc], pipe.file)
        called == [pipe EXCEPT !.log = Append(@, [event  |-> pipe.pc,
                                                   plugin |-> plugin.name,
                                                   args   |-> pipe.args])]
    IN CASE does = "void" ->
               [called EXCEPT !.idx = j + 1]
         [] does = "return" ->
               LET returned == HookReturn(pipe.pc, plugin, pipe.args)
               IN [called EXCEPT !.idx = j + 1,
                                 !.result = returned,
                                 !.args = [@ EXCEPT ![1] = returned]]
         [] does = "throw" ->
               [called EXCEPT !.pc = "rejected",
                              !.error = <<HookError(pipe.pc, plugin)>>]

\* The values of the pipes in the order the pipes completed.
PromiseAllByCompletion(ps) ==
    LET final == CHOOSE k \in DOMAIN ps : \A i \in DOMAIN batch.order : batch.order[i] # k
        order == Append(batch.order, final)
    IN [i \in DOMAIN ps |-> ps[order[i]].value[1]]

\* Promise.all over the pipes of a batch: the values by position.
PromiseAll(ps) == [i \in DOMAIN ps |-> ps[i].value[1]]

\* processMany over Promise.allSettled: the promise settles when every pipe has
SettleAfterAll(k, p) ==
    LET ps    == [pipes EXCEPT ![k] = p]
        order == IF p.pc = "fulfilled" THEN Append(batch.order, k) ELSE batch.order
        ended == \A i \in DOMAIN ps : ps[i].pc \in {"fulfilled", "rejected"}
        failed == {i \in DOMAIN ps : ps[i].pc = "rejected"}
    IN IF call = "processMany" /\ batch.status = "pending" /\ ended
       THEN IF failed # {}
            THEN [batch EXCEPT !.status = "rejected", !.order = order,
                               !.error = ps[CHOOSE i \in failed : TRUE].error]
            ELSE [batch EXCEPT !.status = "fulfilled", !.order = order,
                               !.results = PromiseAll(ps)]
       ELSE [batch EXCEPT !.order = order]

\* The promise of processMany after pipe k has taken a step to pipe p.
Settle(k, p) ==
    IF call = "processMany" /\ batch.status = "pending"
    THEN IF p.pc = "rejected"
         THEN [batch EXCEPT !.status = "rejected", !.error = p.error]
         ELSE IF p.pc = "fulfilled"
         THEN LET ps    == [pipes EXCEPT ![k] = p]
                  order == Append(batch.order, k)
              IN IF \A i \in DOMAIN ps : ps[i].pc = "fulfilled"
                 THEN [batch EXCEPT !.status = "fulfilled", !.order = order,
                                    !.results = PromiseAll(ps)]
                 ELSE [batch EXCEPT !.order = order]
         ELSE batch
    ELSE IF call = "processMany" /\ p.pc = "fulfilled"
         THEN [batch EXCEPT !.order = Append(@, k)]
         ELSE batch

Step(k, p) ==
    /\ pipes' = [pipes EXCEPT ![k] = p]
    /\ batch' = Settle(k, p)

(***************************************************************************)
(* FileProcessor                                                           *)
(***************************************************************************)
Idle == call = "idle"

\* handleError(error, context): every plugin's onError, in order.  Private,
\* and no method of FileProcessor calls it.
handleError(pipe, error) ==
    LET hooks == {j \in DOMAIN plugins : plugins[j].onError # "none"}
        calls == [n \in 1..Cardinality(hooks) |->
                     LET j == CHOOSE j \in hooks :
                                 Cardinality({i \in hooks : i <= j}) = n
                     IN [event |-> "onError", plugin |-> plugins[j].name,
                         args |-> <<error, [file |-> pipe.file]>>]]
    IN [pipe EXCEPT !.log = @ \o calls]

\* process(file), up to its first await
NewPipe(file) ==
    EnterHook([file |-> file, pc |-> "new", args |-> <<>>, result |-> <<>>,
               arr |-> <<>>, shared |-> TRUE, idx |-> 1, awaiting |-> 0,
               registered |-> <<>>,
               report |-> <<>>, blob |-> <<>>,
               processed |-> <<>>, value |-> <<>>, error |-> <<>>, log |-> <<>>],
              "beforeValidation", <<file, config>>)

\* FileProcessor.updateConfig
UpdateConfig(newConfig) ==
    /\ config' = Spread(config, newConfig)
    /\ validator' = NewFileValidator(config')
    /\ supplied' = Spread(supplied, newConfig)
    /\ UNCHANGED <<plugins, last, call, pipes, batch, idCount, previews, canvases>>

\* A loop of runHook that is suspended in a hook and iterates the array
\* this.plugins refers to
Iterating(pipe) == InHook(pipe) /\ pipe.awaiting # 0 /\ pipe.shared

\* FileProcessor.use: push on the array, seen by every loop that iterates it
Use(plugin) ==
    /\ Len(plugins) < MaxPlugins
    /\ plugins' = Append(plugins, plugin)
    /\ pipes' = [k \in DOMAIN pipes |->
                    IF Iterating(pipes[k])
                    THEN [pipes[k] EXCEPT !.arr = Append(@, plugin)]
                    ELSE pipes[k]]
    /\ UNCHANGED <<config, validator, supplied, last, call, batch, idCount, previews, canvases>>

\* plugins.filter(p => p.name !== name)
RECURSIVE WithoutName(_, _)
WithoutName(list, name) ==
    IF list = <<>> THEN <<>>
    ELSE (IF Head(list).name # name THEN <<Head(list)>> ELSE <<>>)
         \o WithoutName(Tail(list), name)

\* FileProcessor.removePlugin: this.plugins becomes a new array, and a loop
\* in progress keeps the array it started with
RemovePlugin(name) ==
    /\ plugins' = WithoutName(plugins, name)
    /\ pipes' = [k \in DOMAIN pipes |->
                    IF Iterating(pipes[k])
                    THEN [pipes[k] EXCEPT !.shared = FALSE]
                    ELSE pipes[k]]
    /\ UNCHANGED <<config, validator, supplied, last, call, batch, idCount, previews, canvases>>

\* process(file): the call, up to the first await
Process(file) ==
    /\ call' = "process"
    /\ pipes' = Append(pipes, NewPipe(file))
    /\ UNCHANGED <<config, validator, supplied, plugins, last, batch, idCount, previews, canvases>>

\* runHook without the await: the hook is called and the loop moves on
BeginHookNoAwait(k) ==
    /\ InHook(pipes[k])
    /\ NextHook(pipes[k]) <= Len(pipes[k].arr)
    /\ LET pipe == pipes[k]
           j    == NextHook(pipe)
       IN Step(k, [pipe EXCEPT !.idx = j + 1,
                               !.log = Append(@, [event |-> "call",
                                                  plugin |-> pipe.arr[j].name,
                                                  args |-> <<pipe.pc>>])])
    /\ UNCHANGED <<config, validator, supplied, plugins, last, call, idCount, previews, canvases>>

\* runHook: hook.apply(plugin, args), up to the await of its promise
BeginHook(k) ==
    /\ InHook(pipes[k])
    /\ pipes[k].awaiting = 0
    /\ NextHook(pipes[k]) <= Len(pipes[k].arr)
    /\ LET pipe == pipes[k]
           j    == NextHook(pipe)
       IN Step(k, [pipe EXCEPT !.awaiting = j,
                               !.log = Append(@, [event |-> "call",
                                                  plugin |-> pipe.arr[j].name,
                                                  args |-> <<pipe.pc>>])])
    /\ UNCHANGED <<config, validator, supplied, plugins, last, call, idCount, previews, canvases>>

\* runHook: the promise of the hook settles and the loop takes what it gave
EndHook(k) ==
    /\ InHook(pipes[k])
    /\ pipes[k].awaiting # 0
    /\ Step(k, [RunHookStep(pipes[k]) EXCEPT !.awaiting = 0])
    /\ UNCHANGED <<config, validator, supplied, plugins, last, call, idCount, previews, canvases>>

\* process with every hook call wrapped in a try/catch that drops the error
CallHookSwallowing(k) ==
    /\ InHook(pipes[k])
    /\ NextHook(pipes[k]) <= Len(pipes[k].arr)
    /\ LET p == RunHookStep(pipes[k])
       IN Step(k, IF p.pc = "rejected"
                  THEN [p EXCEPT !.pc = pipes[k].pc, !.error = <<>>,
                                 !.idx = NextHook(pipes[k]) + 1]
                  ELSE p)
    /\ UNCHANGED <<config, validator, supplied, plugins, last, call, idCount, previews, canvases>>

\* process: one hook call of the stage the pipe is in
CallHook(k) ==
    /\ InHook(pipes[k])
    /\ NextHook(pipes[k]) <= Len(pipes[k].arr)
    /\ Step(k, RunHookStep(pipes[k]))
    /\ UNCHANGED <<config, validator, supplied, plugins, last, call, idCount, previews, canvases>>

\* runHook has no plugin left to call and returns
Returns(k, hookName) ==
    /\ pipes[k].pc = hookName
    /\ NextHook(pipes[k]) > Len(pipes[k].arr)

\* process: validateFile, then the call of runHook('afterValidation', ...)
Validate(k) ==
    /\ Returns(k, "beforeValidation")
    /\ LET pipe   == pipes[k]
           report == ValidateFile(pipe.file, validator)
           logged == [pipe EXCEPT !.report = <<report>>,
                                  !.log = Append(@, [event |-> "validateFile",
                                                     plugin |-> "",
                                                     args |-> <<pipe.file>>])]
       IN Step(k, EnterHook(logged, "afterValidation", <<report, pipe.file>>))
    /\ UNCHANGED <<config, validator, supplied, plugins, last, call, idCount, previews, canvases>>

\* process without the validity test
DecideWithoutTest(k) ==
    /\ Returns(k, "afterValidation")
    /\ Step(k, EnterHook(pipes[k], "beforeProcess", <<pipes[k].file, config>>))
    /\ UNCHANGED <<config, validator, supplied, plugins, last, call, idCount, previews, canvases>>

\* process: the validity test, then the call of runHook('beforeProcess', ...)
Decide(k) ==
    /\ Returns(k, "afterValidation")
    /\ LET pipe   == pipes[k]
           report == pipe.report[1]
       IN IF ~report.valid
          THEN Step(k, [pipe EXCEPT !.pc = "rejected",
                                    !.error = <<ValidationError(report.errors)>>])
          ELSE Step(k, EnterHook(pipe, "beforeProcess", <<pipe.file, config>>))
    /\ UNCHANGED <<config, validator, supplied, plugins, last, call, idCount, previews, canvases>>

\* process that takes the size and type of the metadata from the transformed content
ExtractFromBlob(k) ==
    /\ Returns(k, "beforeProcess")
    /\ LET pipe      == pipes[k]
           processed == [original |-> pipe.file,
                         blob     |-> pipe.result,
                         metadata |-> [extractMetadata(pipe.file, idCount)
                                          EXCEPT !.size = pipe.result.size,
                                                 !.type = pipe.result.type]]
           logged    == [pipe EXCEPT !.blob = <<pipe.result>>,
                                     !.processed = <<processed>>,
                                     !.log = Append(@, [event |-> "extractMetadata",
                                                        plugin |-> "",
                                                        args |-> <<pipe.result>>])]
       IN Step(k, EnterHook(logged, "afterProcess", <<processed>>))
    /\ idCount' = idCount + 1
    /\ UNCHANGED <<config, validator, supplied, plugins, last, call, previews, canvases>>

\* process: extractMetadata, then the call of runHook('afterProcess', processed)
Extract(k) ==
    /\ Returns(k, "beforeProcess")
    /\ LET pipe      == pipes[k]
           processed == [original |-> pipe.file,
                         blob     |-> pipe.result,
                         metadata |-> extractMetadata(pipe.file, idCount)]
           logged    == [pipe EXCEPT !.blob = <<pipe.result>>,
                                     !.processed = <<processed>>,
                                     !.log = Append(@, [event |-> "extractMetadata",
                                                        plugin |-> "",
                                                        args |-> <<pipe.file>>])]
       IN Step(k, EnterHook(logged, "afterProcess", <<processed>>))
    /\ idCount' = idCount + 1
    /\ UNCHANGED <<config, validator, supplied, plugins, last, call, previews, canvases>>

\* process: return finalProcessed
Finish(k) ==
    /\ Returns(k, "afterProcess")
    /\ Step(k, [pipes[k] EXCEPT !.pc = "fulfilled", !.value = <<pipes[k].result>>])
    /\ UNCHANGED <<config, validator, supplied, plugins, last, call, idCount, previews, canvases>>

\* processMany that starts process(file) for every file before it tests the report
ProcessManyEager(files) ==
    /\ call' = "processMany"
    /\ LET validationResult == ValidateFiles(files, validator)
       IN /\ pipes' = [i \in DOMAIN files |-> NewPipe(files[i])]
          /\ batch' = IF ~validationResult.valid
                      THEN [NoBatch EXCEPT !.status = "rejected", !.files = files,
                                !.error = <<ValidationError(validationResult.errors)>>]
                      ELSE IF files = <<>>
                      THEN [NoBatch EXCEPT !.status = "fulfilled", !.files = files]
                      ELSE [NoBatch EXCEPT !.status = "pending", !.files = files]
    /\ UNCHANGED <<config, validator, supplied, plugins, last, idCount, previews, canvases>>

\* processMany(files): validateFiles, then process(file) for every file
ProcessMany(files) ==
    /\ call' = "processMany"
    /\ LET validationResult == ValidateFiles(files, validator)
       IN IF ~validationResult.valid
          THEN /\ batch' = [NoBatch EXCEPT !.status = "rejected", !.files = files,
                                !.error = <<ValidationError(validationResult.errors)>>]
               /\ pipes' = pipes
          ELSE /\ pipes' = [i \in DOMAIN files |-> NewPipe(files[i])]
               /\ batch' = IF files = <<>>
                           THEN [NoBatch EXCEPT !.status = "fulfilled", !.files = files]
                           ELSE [NoBatch EXCEPT !.status = "pending", !.files = files]
    /\ UNCHANGED <<config, validator, supplied, plugins, last, idCount, previews, canvases>>

(***************************************************************************)
(* Specifications                                                          *)
(***************************************************************************)
ProcessorConfigs ==
    {EmptyConfig,
     [maxSize |-> 1000, allowedExtensions |-> <<ExtPng>>, maxFiles |-> 2]}

ProcessorUpdates ==
    {[maxSize |-> 1000, minSize |-> 500],
     [validateFileName |-> FALSE]}

Init ==
    /\ config \in ProcessorConfigs
    /\ validator = NewFileValidator(config)
    /\ supplied = config
    /\ plugins = <<>>
    /\ last = NoCall
    /\ call = "idle"
    /\ pipes = <<>>
    /\ batch = NoBatch
    /\ idCount = 0
    /\ previews = <<>>
    /\ canvases = <<>>

\* A client that registers plugins and configures, then calls process once.
Next ==
    \/ \E plugin \in PluginPool : Idle /\ Use(plugin)
    \/ \E name \in {"A", "X"} : Idle /\ RemovePlugin(name)
    \/ \E newConfig \in ProcessorUpdates : Idle /\ UpdateConfig(newConfig)
    \/ \E file \in BatchFiles \cup {FileBad} : Idle /\ Process(file)
    \/ \E k \in DOMAIN pipes : CallHook(k)
    \/ \E k \in DOMAIN pipes : Validate(k)
    \/ \E k \in DOMAIN pipes : Decide(k)
    \/ \E k \in DOMAIN pipes : Extract(k)
    \/ \E k \in DOMAIN pipes : Finish(k)

Spec == Init /\ [][Next]_vars

\* A client of a processor that has its plugins registered and calls processMany once.
BatchConfigs ==
    {EmptyConfig,
     [maxSize |-> 1000, maxFiles |-> MaxBatch]}

BatchPlugins ==
    {<<>>, <<PluginA, PluginB>>, <<PluginC, PluginN>>, <<PluginB, PluginX>>,
     <<PluginT, PluginB>>}

InitBatch ==
    /\ config \in BatchConfigs
    /\ validator = NewFileValidator(config)
    /\ supplied = config
    /\ plugins \in BatchPlugins
    /\ last = NoCall
    /\ call = "idle"
    /\ pipes = <<>>
    /\ batch = NoBatch
    /\ idCount = 0
    /\ previews = <<>>
    /\ canvases = <<>>

NextBatch ==
    \/ \E files \in SeqsUpTo(BatchFiles, MaxBatch) : Idle /\ ProcessMany(files)
    \/ \E k \in DOMAIN pipes : CallHook(k)
    \/ \E k \in DOMAIN pipes : Validate(k)
    \/ \E k \in DOMAIN pipes : Decide(k)
    \/ \E k \in DOMAIN pipes : Extract(k)
    \/ \E k \in DOMAIN pipes : Finish(k)

SpecBatch == InitBatch /\ [][NextBatch]_vars

\* processMany with every hook that is called settling: no pipe stays
\* suspended for ever.
SpecBatchFair == InitBatch /\ [][NextBatch]_vars /\ WF_vars(NextBatch)

(***************************************************************************)
(* One process call with its awaits apart: a hook is called in one step    *)
(* and settles in a later one, and while the call is suspended the client  *)
(* may call use, removePlugin and updateConfig.                            *)
(***************************************************************************)
LivePlugins == {PluginC}
LiveNames == {"A", "C"}
LiveUpdates == {[maxSize |-> 400]}
LiveFiles == {FilePng, FileBad}
LiveRegistered == {<<PluginA, PluginB>>, <<PluginC, PluginN>>, <<PluginB, PluginX>>}

InitLive ==
    /\ config \in {EmptyConfig}
    /\ validator = NewFileValidator(config)
    /\ supplied = config
    /\ plugins \in LiveRegistered
    /\ last = NoCall
    /\ call = "idle"
    /\ pipes = <<>>
    /\ batch = NoBatch
    /\ idCount = 0
    /\ previews = <<>>
    /\ canvases = <<>>

\* The call is suspended at an await, where the client's code can run: the
\* await of a hook inside the loop of runHook, or, once the loop has ended,
\* the await of runHook itself.  From there the call runs on without a
\* break up to the next hook it calls.
Suspended ==
    \E k \in DOMAIN pipes :
        /\ InHook(pipes[k])
        /\ \/ pipes[k].awaiting # 0
           \/ NextHook(pipes[k]) > Len(pipes[k].arr)

NextLive ==
    \/ \E file \in LiveFiles : Idle /\ Process(file)
    \/ \E plugin \in LivePlugins : Suspended /\ Use(plugin)
    \/ \E name \in LiveNames : Suspended /\ RemovePlugin(name)
    \/ \E newConfig \in LiveUpdates : Suspended /\ UpdateConfig(newConfig)
    \/ \E k \in DOMAIN pipes : BeginHook(k)
    \/ \E k \in DOMAIN pipes : EndHook(k)
    \/ \E k \in DOMAIN pipes : Validate(k)
    \/ \E k \in DOMAIN pipes : Decide(k)
    \/ \E k \in DOMAIN pipes : Extract(k)
    \/ \E k \in DOMAIN pipes : Finish(k)

SpecLive == InitLive /\ [][NextLive]_vars

(***************************************************************************)
(* The plugin registry: use and removePlugin in any order, with the calls  *)
(* made so far kept in last.calls.                                         *)
(***************************************************************************)
\* A second plugin named "A": another object with the same name.
PluginA2 == Plugin("A", "none", "none", "void", "void")

RegistryPlugins == {PluginA, PluginA2, PluginB, PluginC}
RegistryNames == {"A", "B", "N"}

\* processor.use(plugin), recorded
UseCall(plugin) ==
    /\ last.op = "registry"
    /\ Len(last.calls) < MaxCalls
    /\ plugins' = Append(plugins, plugin)
    /\ last' = [last EXCEPT !.calls = Append(@, [op |-> "use", plugin |-> plugin,
                                                  name |-> plugin.name])]
    /\ UNCHANGED <<config, validator, supplied, call, pipes, batch, idCount, previews, canvases>>

\* removePlugin that drops only the first plugin of that name
RemovePluginCallFirst(name) ==
    /\ last.op = "registry"
    /\ Len(last.calls) < MaxCalls
    /\ LET hits == {i \in DOMAIN plugins : plugins[i].name = name}
       IN plugins' = IF hits = {} THEN plugins
                     ELSE LET f == CHOOSE i \in hits : \A j \in hits : i <= j
                          IN SubSeq(plugins, 1, f - 1) \o SubSeq(plugins, f + 1, Len(plugins))
    /\ last' = [last EXCEPT !.calls = Append(@, [op |-> "removePlugin", plugin |-> <<>>,
                                                  name |-> name])]
    /\ UNCHANGED <<config, validator, supplied, call, pipes, batch, idCount, previews, canvases>>

\* processor.removePlugin(name), recorded
RemovePluginCall(name) ==
    /\ last.op = "registry"
    /\ Len(last.calls) < MaxCalls
    /\ plugins' = WithoutName(plugins, name)
    /\ last' = [last EXCEPT !.calls = Append(@, [op |-> "removePlugin", plugin |-> <<>>,
                                                  name |-> name])]
    /\ UNCHANGED <<config, validator, supplied, call, pipes, batch, idCount, previews, canvases>>

InitRegistry ==
    /\ config = EmptyConfig
    /\ validator = NewFileValidator(config)
    /\ supplied = config
    /\ plugins = <<>>
    /\ last = [op |-> "registry", calls |-> <<>>]
    /\ call = "idle"
    /\ pipes = <<>>
    /\ batch = NoBatch
    /\ idCount = 0
    /\ previews = <<>>
    /\ canvases = <<>>

NextRegistry ==
    \/ \E plugin \in RegistryPlugins : UseCall(plugin)
    \/ \E name \in RegistryNames : RemovePluginCall(name)

SpecRegistry == InitRegistry /\ [][NextRegistry]_vars

(***************************************************************************)
(* ImagePreviewPlugin: the registry of previews.  A canvas is an element   *)
(* of its own; the registry holds a reference to it (its number).          *)
(***************************************************************************)
DefaultPreviewSize == 200

\* What loadImage resolves to: a landscape and a portrait image.
PreviewImages == {[width |-> 400, height |-> 200], [width |-> 100, height |-> 200]}

PreviewIds == {1, 2}

\* The ProcessedFile values handed to afterProcess.
PreviewInputs ==
    {[original |-> file, blob |-> file, metadata |-> extractMetadata(file, id - 1)] :
        file \in {FilePng, FileTxt}, id \in PreviewIds}

\* The size given to the canvas: the longer side is size, the ratio is kept.
CanvasSize(img, size) ==
    IF img.width > img.height
    THEN [width |-> size, height |-> (size * img.height) \div img.width]
    ELSE [width |-> (size * img.width) \div img.height, height |-> size]

Released == [width |-> 0, height |-> 0]

\* ImagePreviewPlugin.afterProcess; loaded is whether loadImage resolves.
PreviewAfterProcess(processed, loaded, img) ==
    /\ Len(canvases) < MaxPreviews
    /\ IF ~StartsWith(processed.original.type, Str(<<"i", "m", "a", "g", "e", "/">>))
       THEN /\ last' = [op |-> "afterProcess", previews |-> previews, canvases |-> canvases,
                        threw |-> FALSE, result |-> <<processed>>]
            /\ UNCHANGED <<previews, canvases>>
       ELSE IF ~loaded
       THEN /\ last' = [op |-> "afterProcess", previews |-> previews, canvases |-> canvases,
                        threw |-> TRUE, result |-> <<>>]
            /\ UNCHANGED <<previews, canvases>>
       ELSE LET canvas == Len(canvases) + 1
            IN /\ previews' = Append(previews, [id |-> processed.metadata.id,
                                                canvas |-> canvas])
               /\ canvases' = Append(canvases, CanvasSize(img, DefaultPreviewSize))
               /\ last' = [op |-> "afterProcess", previews |-> previews,
                           canvases |-> canvases, threw |-> FALSE,
                           result |-> <<[processed EXCEPT !.metadata =
                                           [previewWidth  |-> img.width,
                                            previewHeight |-> img.height,
                                            previewURL    |-> <<"jpeg", canvas>>] @@ @]>>]
    /\ UNCHANGED <<config, validator, supplied, plugins, call, pipes, batch, idCount>>

\* ImagePreviewPlugin.cleanup
PreviewCleanup ==
    /\ canvases' = [n \in DOMAIN canvases |->
                       IF \E i \in DOMAIN previews : previews[i].canvas = n
                       THEN Released ELSE canvases[n]]
    /\ previews' = <<>>
    /\ last' = [op |-> "cleanup", previews |-> previews, canvases |-> canvases,
                threw |-> FALSE]
    /\ UNCHANGED <<config, validator, supplied, plugins, call, pipes, batch, idCount>>

\* previews.findIndex(preview => preview.id === id): 0 stands for -1
FindIndex(list, id) ==
    LET hits == {i \in DOMAIN list : list[i].id = id}
    IN IF hits = {} THEN 0 ELSE CHOOSE i \in hits : \A j \in hits : i <= j

\* cleanupPreview that releases and removes every preview of the id
PreviewCleanupPreviewAll(id) ==
    /\ LET hits == {i \in DOMAIN previews : previews[i].id = id}
           kept == {i \in DOMAIN previews : previews[i].id # id}
       IN /\ canvases' = [n \in DOMAIN canvases |->
                             IF \E i \in hits : previews[i].canvas = n
                             THEN Released ELSE canvases[n]]
          /\ previews' = [n \in 1..Cardinality(kept) |->
                             previews[CHOOSE i \in kept :
                                          Cardinality({j \in kept : j <= i}) = n]]
          /\ last' = [op |-> "cleanupPreview", id |-> id, previews |-> previews,
                      canvases |-> canvases, threw |-> FALSE, logged |-> hits = {}]
    /\ UNCHANGED <<config, validator, supplied, plugins, call, pipes, batch, idCount>>

\* ImagePreviewPlugin.cleanupPreview
PreviewCleanupPreview(id) ==
    /\ LET targetIdx == FindIndex(previews, id)
       IN IF targetIdx = 0
          THEN /\ last' = [op |-> "cleanupPreview", id |-> id, previews |-> previews,
                           canvases |-> canvases, threw |-> FALSE, logged |-> TRUE]
               /\ UNCHANGED <<previews, canvases>>
          ELSE /\ canvases' = [canvases EXCEPT ![previews[targetIdx].canvas] = Released]
               /\ previews' = SubSeq(previews, 1, targetIdx - 1)
                                 \o SubSeq(previews, targetIdx + 1, Len(previews))
               /\ last' = [op |-> "cleanupPreview", id |-> id, previews |-> previews,
                           canvases |-> canvases, threw |-> FALSE, logged |-> FALSE]
    /\ UNCHANGED <<config, validator, supplied, plugins, call, pipes, batch, idCount>>

\* new ImagePreviewPlugin()
InitPreview ==
    /\ config = EmptyConfig
    /\ validator = NewFileValidator(config)
    /\ supplied = config
    /\ plugins = <<>>
    /\ last = [op |-> "new"]
    /\ call = "idle"
    /\ pipes = <<>>
    /\ batch = NoBatch
    /\ idCount = 0
    /\ previews = <<>>
    /\ canvases = <<>>

NextPreview ==
    \/ \E processed \in PreviewInputs, loaded \in BOOLEAN, img \in PreviewImages :
          PreviewAfterProcess(processed, loaded, img)
    \/ \E id \in PreviewIds \cup {3} : PreviewCleanupPreview(id)
    \/ PreviewCleanup

SpecPreview == InitPreview /\ [][NextPreview]_vars

(***************************************************************************)
(* Properties                                                              *)
(***************************************************************************)
Select(list, Keep(_)) ==
    LET F[i \in 0..Len(list)] ==
            IF i = 0 THEN <<>>
            ELSE IF Keep(list[i]) THEN Append(F[i - 1], list[i]) ELSE F[i - 1]
    IN F[Len(list)]

Events(pipe, name) ==
    LET Keep(e) == e.event = name
    IN Select(pipe.log, Keep)

\* The plugins of a list that define a hook, in list order.
Defining(list, hookName) ==
    LET Keep(p) == p[hookName] # "none"
    IN Select(list, Keep)

\* The value the n-th plugin of a list of beforeProcess plugins is handed,
\* as the pipeline contract states it: the original file for the first, then
\* the last value returned before it.
RECURSIVE Carried(_, _, _)
Carried(list, n, original) ==
    IF n = 1 THEN original
    ELSE LET before == Carried(list, n - 1, original)
             prev   == list[n - 1]
         IN IF prev.beforeProcess = "return"
            THEN HookReturn("beforeProcess", prev, <<before>>)
            ELSE before

PastBeforeProcess(pipe) == pipe.blob # <<>>

\* C1: process calls the beforeProcess hooks in registration order; the first
\* receives the original file, each later one the most recent returned value;
\* the transformed content is the value left after the last plugin.  With
\* plugins A, B, C each appending a tag the content is the original content
\* followed by A, B, C; with no hook returning a value it is the original file.
C1_PreTransformPropagates ==
    \A k \in DOMAIN pipes :
        PastBeforeProcess(pipes[k]) =>
            LET pipe  == pipes[k]
                hooks == Defining(plugins, "beforeProcess")
                calls == Events(pipe, "beforeProcess")
            IN /\ Len(calls) = Len(hooks)
               /\ \A n \in DOMAIN calls :
                     /\ calls[n].plugin = hooks[n].name
                     /\ calls[n].args[1] = Carried(hooks, n, pipe.file)
               /\ pipe.blob[1] = Carried(hooks, Len(hooks) + 1, pipe.file)
               /\ pipe.processed[1].blob = pipe.blob[1]
               /\ (plugins = <<PluginA, PluginB, PluginC>> =>
                      pipe.blob[1].content = pipe.file.content \o <<"A", "B", "C">>)
               /\ ((\A i \in DOMAIN plugins : plugins[i].beforeProcess # "return") =>
                      pipe.blob[1] = pipe.file)

C1_Witness ==
    /\ plugins = <<PluginA, PluginB, PluginC>>
    /\ \E k \in DOMAIN pipes :
          /\ pipes[k].pc = "fulfilled"
          /\ pipes[k].value[1].blob.content = pipes[k].file.content \o <<"A", "B", "C">>

Raised(pipe) == pipe.pc = "rejected" /\ pipe.error[1].kind = "HookFailure"

Mentions(message, text) == \E i \in DOMAIN message : message[i] = Lit(text)

\* C3: when the number of files exceeds maxFiles, validateFiles returns
\* valid = false with exactly one error, which names the limit and the actual
\* count, and no per-file reports; validateFile is run on none of the files.
\* With maxFiles = 1 and two files the error mentions 2.
C3_TooManyFiles ==
    (last.op = "validateFiles" /\ Len(last.files) > last.config.maxFiles) =>
        /\ last.result.valid = FALSE
        /\ Len(last.result.errors) = 1
        /\ last.result.errors[1].rule = "maxFiles"
        /\ Mentions(last.result.errors[1].message, ToString(last.config.maxFiles))
        /\ Mentions(last.result.errors[1].message, ToString(Len(last.files)))
        /\ "results" \notin DOMAIN last.result
        /\ last.calls = <<>>
        /\ (last.config.maxFiles = 1 /\ Len(last.files) = 2 =>
               Mentions(last.result.errors[1].message, "2"))

C3_Witness ==
    /\ last.op = "validateFiles"
    /\ last.config.maxFiles = 1
    /\ Len(last.files) = 2
    /\ \A i \in DOMAIN last.files : ValidateFile(last.files[i], last.config).valid
    /\ ~last.result.valid

\* C4: when the report of validateFiles is invalid, processMany fails with the
\* validation error and starts process for no file: no hook is called and no
\* metadata is extracted.
C4_InvalidBatchStartsNothing ==
    (call = "processMany" /\ ~ValidateFiles(batch.files, validator).valid) =>
        /\ batch.status = "rejected"
        /\ batch.error[1].kind = "ValidationFailed"
        /\ batch.error[1].message =
              <<Lit("Kiem tra hop le that bai: ")>>
                  \o Join([i \in DOMAIN ValidateFiles(batch.files, validator).errors |->
                              ValidateFiles(batch.files, validator).errors[i].message], ", ")
        /\ pipes = <<>>
        /\ idCount = 0

C4_Witness ==
    /\ call = "processMany"
    /\ batch.status = "rejected"
    /\ Len(batch.files) = 2
    /\ Len(batch.files) <= validator.maxFiles
    /\ ValidateFile(batch.files[1], validator).valid
    /\ ~ValidateFile(batch.files[2], validator).valid
    /\ Defining(plugins, "beforeValidation") # <<>>

\* C5: when processMany succeeds on f1..fn, the returned sequence has length n
\* and its i-th element is the ProcessedFile of the i-th pipeline, whose
\* original is fi, whatever the order in which the pipelines completed.
C5_ResultsPositional ==
    batch.status = "fulfilled" =>
        /\ Len(batch.results) = Len(batch.files)
        /\ \A i \in DOMAIN batch.files :
              /\ batch.results[i].original = batch.files[i]
              /\ batch.results[i].metadata.name = batch.files[i].name
              /\ batch.results[i] = pipes[i].value[1]

C5_Witness ==
    /\ batch.status = "fulfilled"
    /\ batch.order = <<2, 1>>
    /\ batch.files[1] # batch.files[2]
    /\ batch.results[1].original = batch.files[1]

ErrorsOf(result, rule) ==
    LET Keep(e) == e.rule = rule
    IN Select(result.errors, Keep)

\* The outcomes of a file as the validation contract states them: one per
\* built-in rule, in order, then one per custom validator whose type is the
\* file's type.
ClaimedOutcomes(file, cfg) ==
    LET applicable == LET Keep(v) == v.type = file.type
                      IN Select(cfg.customValidators, Keep)
    IN [i \in DOMAIN Rules |-> Check(Rules[i], file, cfg)]
       \o [i \in DOMAIN applicable |->
              LET result == CustomResult(applicable[i].fn, file)
              IN [file    |-> file.name,
                  valid   |-> IsTrue(result),
                  rule    |-> "custom",
                  message |-> IF IsTrue(result) THEN NullMessage
                              ELSE IF result.kind = "string" THEN <<Lit(result.text)>>
                              ELSE <<Lit("Kiem tra hop le tuy chinh that bai")>>]]

Failing(outcomes) ==
    LET Keep(o) == ~o.valid
    IN Select(outcomes, Keep)

AsError(o) == [valid |-> FALSE, rule |-> o.rule, message |-> o.message, file |-> o.file]

\* C6: validateFile evaluates every built-in rule, in order, and then every
\* applicable custom validator, never stopping at a failure; errors holds every
\* failing outcome in evaluation order and valid is true iff no outcome failed.
C6_EveryRuleEvaluated ==
    last.op = "validateFile" =>
        LET failing == Failing(ClaimedOutcomes(last.file, last.config))
        IN /\ last.result.errors = [i \in DOMAIN failing |-> AsError(failing[i])]
           /\ last.result.valid = (failing = <<>>)

\* C7: the report of validateFile has an ordered outcomes sequence with one
\* outcome per rule evaluated, passing ones included; errors is the subsequence
\* of the outcomes that did not pass; an outcome's message is null iff it passed.
C7_ReportHasOutcomes ==
    last.op = "validateFile" =>
        /\ "results" \in DOMAIN last.result
        /\ Len(last.result.results) >= Len(Rules)
        /\ last.result.errors = Failing(last.result.results)
        /\ \A i \in DOMAIN last.result.results :
              (last.result.results[i].message = NullMessage) = last.result.results[i].valid

\* C8: the size rule passes iff minSize <= file.size <= maxSize; when it fails
\* the report has exactly one fileSize error, whose message names both bounds.
C8_SizeRule ==
    last.op = "validateFile" =>
        LET cfg      == last.config
            inRange  == cfg.minSize <= last.file.size /\ last.file.size <= cfg.maxSize
            failures == ErrorsOf(last.result, "fileSize")
        IN /\ (failures = <<>>) = inRange
           /\ Len(failures) <= 1
           /\ \A i \in DOMAIN failures :
                 /\ \E j \in DOMAIN failures[i].message :
                       <<failures[i].message[j]>> = formatBytes(cfg.minSize)
                 /\ \E j \in DOMAIN failures[i].message :
                       <<failures[i].message[j]>> = formatBytes(cfg.maxSize)
                 /\ failures[i].file = last.file.name

C8_Witness ==
    /\ last.op = "validateFile"
    /\ last.file.size = last.config.maxSize + 1
    /\ Len(ErrorsOf(last.result, "fileSize")) = 1

\* The part of a MIME type before its slash.
BeforeSlash(type) ==
    LET slashes == {i \in DOMAIN type : type[i] = Code["/"]}
    IN IF slashes = {} THEN type
       ELSE SubStr(type, 1, (CHOOSE i \in slashes : \A k \in slashes : i <= k) - 1)

IsWildcard(type) == EndsWith(type, Str(<<"/", "*">>))

\* C9: the type rule passes iff allowedTypes is empty, or the file's type is
\* an allowed entry, or the part of the file's type before the slash is the
\* prefix of an allowed wildcard entry prefix/*.
C9_TypeRule ==
    last.op = "validateFile" =>
        LET allowed == last.config.allowedTypes
            type    == last.file.type
            passes  == \/ allowed = <<>>
                       \/ \E i \in DOMAIN allowed : allowed[i] = type
                       \/ \E i \in DOMAIN allowed :
                             /\ IsWildcard(allowed[i])
                             /\ BeforeSlash(type) = BeforeSlash(allowed[i])
        IN (ErrorsOf(last.result, "fileType") = <<>>) = passes

NameIsAcceptable(name) ==
    /\ Len(name) > 0
    /\ Len(name) < MaxNameLength
    /\ \A i \in DOMAIN name : name[i] \notin InvalidChars

\* C10: the name rule passes for every file when the configuration sets
\* validateFileName to false; when it is true the rule passes iff the name is
\* non-empty, shorter than 255 characters and has no forbidden character.
C10_NameRule ==
    last.op = "validateFile" =>
        LET check == IF Has(supplied, "validateFileName")
                     THEN supplied.validateFileName ELSE TRUE
        IN (ErrorsOf(last.result, "fileName") = <<>>)
               = (~check \/ NameIsAcceptable(last.file.name))

\* The custom validators whose type is the file's type, in list order.
Applicable(file, cfg) ==
    LET Keep(v) == v.type = file.type
    IN Select(cfg.customValidators, Keep)

\* The error a custom validator's result adds, if any, as the contract states it.
RECURSIVE ClaimedCustomErrors(_, _)
ClaimedCustomErrors(validators, file) ==
    IF validators = <<>> THEN <<>>
    ELSE LET result == CustomResult(Head(validators).fn, file)
         IN (IF result.kind = "boolean" /\ result.bool THEN <<>>
             ELSE <<[valid   |-> FALSE,
                     rule    |-> "custom",
                     message |-> IF result.kind = "string" THEN <<Lit(result.text)>>
                                 ELSE <<Lit("Kiem tra hop le tuy chinh that bai")>>,
                     file    |-> file.name]>>)
            \o ClaimedCustomErrors(Tail(validators), file)

\* C11: every custom validator whose type is the file's exact type is run,
\* whatever its position in the list; a validator whose type differs is
\* skipped, adds no outcome and does not keep later validators from running.
C11_CustomValidatorsByType ==
    last.op = "validateFile" =>
        /\ CustomCalls(1, last.file, last.config) = Applicable(last.file, last.config)
        /\ ErrorsOf(last.result, "custom")
              = ClaimedCustomErrors(Applicable(last.file, last.config), last.file)

ClaimedResolved(c) ==
    [maxSize           |-> IF Has(c, "maxSize") THEN c.maxSize ELSE DefaultMaxSize,
     minSize           |-> IF Has(c, "minSize") THEN c.minSize ELSE 0,
     allowedTypes      |-> IF Has(c, "allowedTypes") THEN c.allowedTypes ELSE <<>>,
     allowedExtensions |-> IF Has(c, "allowedExtensions") THEN c.allowedExtensions ELSE <<>>,
     maxFiles          |-> IF Has(c, "maxFiles") THEN c.maxFiles ELSE 1,
     validateFileName  |-> IF Has(c, "validateFileName") THEN c.validateFileName ELSE TRUE,
     customValidators  |-> IF Has(c, "customValidators") THEN c.customValidators ELSE <<>>]

\* C13: the resolved configuration holds the user's value for every field the
\* user set, 0 and false included, and the documented default for the others.
C13_ResolvedConfig == validator = ClaimedResolved(supplied)

\* The text after the last dot of a name, empty without a dot.
AfterLastDot(name) ==
    LET dots == {i \in DOMAIN name : name[i] = 46}
    IN IF dots = {} THEN <<>>
       ELSE SubStr(name, (CHOOSE i \in dots : \A k \in dots : k <= i) + 1, Len(name))

\* C20: the extension rule passes iff allowedExtensions is empty or the file's
\* extension, lowercased, equals an allowed entry compared case-insensitively.
\* With {maxSize: 1000, allowedExtensions: [png]} the file a.txt of size 500
\* and type text/plain has exactly one error, of rule fileExtension.
C20_ExtensionRule ==
    last.op = "validateFile" =>
        LET allowed == last.config.allowedExtensions
            ext     == ToLowerCase(AfterLastDot(last.file.name))
            passes  == \/ allowed = <<>>
                       \/ \E i \in DOMAIN allowed : ToLowerCase(allowed[i]) = ext
        IN /\ (ErrorsOf(last.result, "fileExtension") = <<>>) = passes
           /\ Len(ErrorsOf(last.result, "fileExtension")) <= 1
           /\ (/\ last.config = NewFileValidator([maxSize |-> 1000,
                                                  allowedExtensions |-> <<ExtPng>>])
               /\ last.file = FileTxt)
                 => /\ Len(last.result.errors) = 1
                    /\ last.result.errors[1].rule = "fileExtension"

C20_Witness ==
    /\ last.op = "validateFile"
    /\ last.config.allowedExtensions = <<ExtPNG>>
    /\ AfterLastDot(last.file.name) = ExtPng
    /\ Len(AfterLastDot(last.file.name)) < Len(last.file.name) - 2
    /\ ErrorsOf(last.result, "fileExtension") = <<>>


\* C14: after updateConfig(partial), validations started afterwards are
\* evaluated against a configuration in which each field of partial has its
\* new value and every other field keeps the value it had; reports returned
\* before the update are not altered.  Here: a step that merges a partial
\* into the configuration leaves the validator with exactly that merge of
\* its former configuration, touches no report already made, and every
\* report of a process call is the validator's report for its file.
C14_UpdateTakesEffect ==
    /\ [][\A partial \in ProcessorUpdates :
             (supplied' = Spread(supplied, partial) /\ supplied' # supplied) =>
                 /\ validator' = Spread(validator, partial)
                 /\ last' = last
                 /\ pipes' = pipes]_vars
    /\ [](\A k \in DOMAIN pipes :
             pipes[k].report # <<>> =>
                 pipes[k].report[1] = ValidateFile(pipes[k].file, validator))

\* C15: return values of beforeValidation and afterValidation hooks are
\* ignored: every beforeValidation hook receives the original file and the
\* current config, every afterValidation hook receives the validator's
\* report and the original file, the file validated is the original file and
\* the validity decision follows the validator's report.
C15_ValidationHooksFireAndForget ==
    \A k \in DOMAIN pipes :
        LET pipe == pipes[k]
        IN /\ \A i \in DOMAIN pipe.log :
                 LET e == pipe.log[i]
                 IN /\ e.event = "beforeValidation" => e.args = <<pipe.file, config>>
                    /\ e.event = "validateFile" => e.args = <<pipe.file>>
                    /\ e.event = "afterValidation" =>
                          e.args = <<ValidateFile(pipe.file, validator), pipe.file>>
           /\ pipe.report # <<>> =>
                 /\ pipe.report[1] = ValidateFile(pipe.file, validator)
                 /\ PastBeforeProcess(pipe) => pipe.report[1].valid

\* C16: when process fails (validation failure or a hook raising), the
\* onError hook of every plugin that defines one has been invoked, in
\* registration order, with the error, and the error that reaches the caller
\* is that same error.
C16_OnErrorInvoked ==
    \A k \in DOMAIN pipes :
        LET pipe  == pipes[k]
            hooks == Defining(plugins, "onError")
            calls == Events(pipe, "onError")
        IN pipe.pc = "rejected" =>
              /\ Len(calls) = Len(hooks)
              /\ \A n \in DOMAIN calls :
                    /\ calls[n].plugin = hooks[n].name
                    /\ calls[n].args[1] = pipe.error[1]


\* The plugin of the pool a log entry names, and whether its hook raised.
Thrower(e) ==
    /\ e.event \in HookNames
    /\ \E plugin \in PluginPool : plugin.name = e.plugin /\ plugin[e.event] = "throw"

StagesAfter(hookName) ==
    CASE hookName = "beforeValidation" ->
             {"validateFile", "afterValidation", "beforeProcess", "extractMetadata", "afterProcess"}
      [] hookName = "afterValidation" -> {"beforeProcess", "extractMetadata", "afterProcess"}
      [] hookName = "beforeProcess" -> {"extractMetadata", "afterProcess"}
      [] hookName = "afterProcess" -> {}

\* C17: when a plugin hook raises at any stage of process, the call fails
\* with that error, the raising hook is the last thing the call executed (no
\* later hook of the stage and nothing of a later stage: validation,
\* metadata extraction, later hooks), and no result is returned.
C17_HookFailureAborts ==
    \A k \in DOMAIN pipes :
        LET pipe == pipes[k]
        IN \A i \in DOMAIN pipe.log :
              Thrower(pipe.log[i]) =>
                 LET e == pipe.log[i]
                 IN /\ i = Len(pipe.log)
                    /\ pipe.pc = "rejected"
                    /\ pipe.error[1].kind = "HookFailure"
                    /\ pipe.error[1].message = <<Lit(e.event), Lit(e.plugin)>>
                    /\ pipe.value = <<>>
                    /\ \A stage \in StagesAfter(e.event) : Events(pipe, stage) = <<>>
                    /\ e.event = "beforeValidation" => pipe.report = <<>>
                    /\ e.event # "afterProcess" => pipe.processed = <<>> /\ idCount = 0

C17_Witness ==
    /\ \E i, j \in DOMAIN plugins :
          /\ i < j
          /\ plugins[i] = PluginZ
          /\ plugins[j].beforeProcess # "none"
    /\ \E k \in DOMAIN pipes :
          /\ pipes[k].pc = "rejected"
          /\ pipes[k].error[1] = HookError("beforeProcess", PluginZ)
          /\ pipes[k].report # <<>>


\* The i-th smallest element of a finite set of numbers.
Nth(set, n) == CHOOSE i \in set : Cardinality({j \in set : j <= i}) = n

\* The plugins passed to use, in call order, minus every plugin whose name
\* was passed to a later removePlugin.
ClaimedPlugins(calls) ==
    LET kept == {i \in DOMAIN calls :
                    /\ calls[i].op = "use"
                    /\ \A j \in DOMAIN calls :
                          (j > i /\ calls[j].op = "removePlugin") =>
                              calls[j].name # calls[i].name}
    IN [n \in 1..Cardinality(kept) |-> calls[Nth(kept, n)].plugin]

\* C18: after any sequence of use and removePlugin calls the plugin list is
\* exactly the plugins passed to use, in call order, minus every plugin whose
\* name was passed to a later removePlugin: use never de-duplicates,
\* removePlugin(name) removes all plugins of that name and keeps the others
\* in order, and removePlugin of an absent name changes nothing.
C18_RegistryIsHistory ==
    last.op = "registry" =>
        /\ plugins = ClaimedPlugins(last.calls)
        /\ \A n \in DOMAIN last.calls :
              LET c == last.calls[n]
                  before == ClaimedPlugins(SubSeq(last.calls, 1, n - 1))
                  after  == ClaimedPlugins(SubSeq(last.calls, 1, n))
              IN /\ c.op = "use" => after = Append(before, c.plugin)
                 /\ (c.op = "removePlugin"
                        /\ \A i \in DOMAIN before : before[i].name # c.name) =>
                       after = before

C18_Witness ==
    /\ last.op = "registry"
    /\ last.calls = <<[op |-> "use", plugin |-> PluginA, name |-> "A"],
                      [op |-> "use", plugin |-> PluginB, name |-> "B"],
                      [op |-> "use", plugin |-> PluginA2, name |-> "A"],
                      [op |-> "removePlugin", plugin |-> <<>>, name |-> "A"]>>
    /\ plugins = <<PluginB>>


\* list without its i-th entry
Without(list, i) == SubSeq(list, 1, i - 1) \o SubSeq(list, i + 1, Len(list))

\* C19: cleanupPreview(id) with an id present in the registry releases and
\* removes exactly one entry of that id and leaves every other entry, their
\* order and their canvases unchanged; with an id not in the registry it
\* leaves the registry unchanged and raises no error; cleanup() leaves the
\* registry empty.
C19_PreviewCleanup ==
    /\ last.op = "cleanupPreview" =>
          /\ ~last.threw
          /\ IF \E i \in DOMAIN last.previews : last.previews[i].id = last.id
             THEN \E i \in DOMAIN last.previews :
                     /\ last.previews[i].id = last.id
                     /\ previews = Without(last.previews, i)
                     /\ canvases[last.previews[i].canvas] = Released
                     /\ \A n \in DOMAIN canvases :
                           n # last.previews[i].canvas => canvases[n] = last.canvases[n]
             ELSE /\ previews = last.previews
                  /\ canvases = last.canvases
    /\ last.op = "cleanup" =>
          /\ previews = <<>>
          /\ ~last.threw

C19_Witness ==
    /\ last.op = "cleanupPreview"
    /\ Len(last.previews) = 3
    /\ last.previews[1].id # last.id
    /\ last.previews[2].id = last.id
    /\ last.previews[3].id = last.id
    /\ previews = <<last.previews[1], last.previews[3]>>
    /\ canvases[2] = Released
    /\ canvases[3] # Released


\* The place of an event in the fixed order of a process call.
StageRank(event) ==
    CASE event = "beforeValidation" -> 1
      [] event = "validateFile"     -> 2
      [] event = "afterValidation"  -> 3
      [] event = "beforeProcess"    -> 4
      [] event = "extractMetadata"  -> 5
      [] event = "afterProcess"     -> 6

\* The log without the entries that mark a hook being called.
Completed(pipe) ==
    LET Keep(e) == e.event # "call"
    IN Select(pipe.log, Keep)

Names(list) == [i \in DOMAIN list |-> list[i].name]

\* C21: within one process call at most one hook is executing at any time:
\* a hook is called only when the hook called before it has settled, and
\* nothing else of the call happens in between.  The events occur in the
\* fixed order beforeValidation hooks, validateFile, afterValidation hooks,
\* beforeProcess hooks, metadata extraction, afterProcess hooks, and the
\* hooks of the stage under way have fired in the order of the plugin list.
C21_OneHookAtATime ==
    \A k \in DOMAIN pipes :
        LET pipe == pipes[k]
            log  == pipe.log
            done == Completed(pipe)
        IN /\ \A i \in DOMAIN log :
                 /\ log[i].event = "call" =>
                       IF i = Len(log)
                       THEN pipe.awaiting # 0 /\ pipe.pc = log[i].args[1]
                       ELSE /\ log[i + 1].event = log[i].args[1]
                            /\ log[i + 1].plugin = log[i].plugin
                 /\ log[i].event \in HookNames =>
                       /\ i > 1
                       /\ log[i - 1].event = "call"
                       /\ log[i - 1].plugin = log[i].plugin
           /\ (pipe.awaiting # 0) => (log # <<>> /\ log[Len(log)].event = "call")
           /\ \A i, j \in DOMAIN done :
                 i < j => StageRank(done[i].event) <= StageRank(done[j].event)
           /\ Len(Events(pipe, "validateFile")) <= 1
           /\ Len(Events(pipe, "extractMetadata")) <= 1
           /\ (InHook(pipe) /\ pipe.awaiting = 0) =>
                 [i \in DOMAIN Events(pipe, pipe.pc) |-> Events(pipe, pipe.pc)[i].plugin]
                     = Names(Defining(SubSeq(pipe.arr, 1, pipe.idx - 1), pipe.pc))

C21_Witness ==
    \E k \in DOMAIN pipes :
        /\ pipes[k].pc = "fulfilled"
        /\ \A hookName \in HookNames : Events(pipes[k], hookName) # <<>>
        /\ Len(Events(pipes[k], "beforeProcess")) >= 2
        /\ Len(Events(pipes[k], "call")) >= 5


\* The value the n-th plugin of a list of afterProcess plugins is handed:
\* the assembled ProcessedFile for the first, then the last value returned
\* before it.
RECURSIVE CarriedProcessed(_, _, _)
CarriedProcessed(list, n, initial) ==
    IF n = 1 THEN initial
    ELSE LET before == CarriedProcessed(list, n - 1, initial)
             prev   == list[n - 1]
         IN IF prev.afterProcess = "return"
            THEN HookReturn("afterProcess", prev, <<before>>)
            ELSE before

\* C22: for a valid file the ProcessedFile given to the first afterProcess
\* hook has original equal to the input file, the content left by the
\* beforeProcess stage, and metadata (name, size, type, lastModified,
\* extension, fresh id) of the original file, not of the transformed
\* content; each later afterProcess hook receives the most recent
\* ProcessedFile returned before it, and process returns the value left
\* after the last plugin.
C22_PostTransformPropagates ==
    \A k \in DOMAIN pipes :
        pipes[k].processed # <<>> =>
            LET pipe    == pipes[k]
                initial == pipe.processed[1]
                hooks   == Defining(plugins, "afterProcess")
                calls   == Events(pipe, "afterProcess")
            IN /\ initial.original = pipe.file
               /\ initial.blob = Carried(Defining(plugins, "beforeProcess"),
                                         Len(Defining(plugins, "beforeProcess")) + 1,
                                         pipe.file)
               /\ initial.metadata.name = pipe.file.name
               /\ initial.metadata.size = pipe.file.size
               /\ initial.metadata.type = pipe.file.type
               /\ initial.metadata.lastModified = pipe.file.lastModified
               /\ initial.metadata.extension = getExtension(pipe.file.name)
               /\ initial.metadata.id = idCount
               /\ \A other \in DOMAIN pipes :
                     (other # k /\ pipes[other].processed # <<>>) =>
                         pipes[other].processed[1].metadata.id # initial.metadata.id
               /\ Len(calls) <= Len(hooks)
               /\ \A n \in DOMAIN calls :
                     /\ calls[n].plugin = hooks[n].name
                     /\ calls[n].args = <<CarriedProcessed(hooks, n, initial)>>
               /\ pipe.pc = "fulfilled" =>
                     /\ Len(calls) = Len(hooks)
                     /\ pipe.value = <<CarriedProcessed(hooks, Len(hooks) + 1, initial)>>

C22_Witness ==
    \E k \in DOMAIN pipes :
        /\ pipes[k].pc = "fulfilled"
        /\ pipes[k].processed[1].blob.size # pipes[k].file.size
        /\ Len(Events(pipes[k], "afterProcess")) >= 2
        /\ Events(pipes[k], "afterProcess")[2].args # <<pipes[k].processed[1]>>
        /\ pipes[k].value # pipes[k].processed


RaisedIn(pipe, hookName) ==
    Raised(pipe) /\ pipe.error[1].message[1] = Lit(hookName)

\* C23: in every process call whose beforeValidation hooks complete, the
\* afterValidation hook of every plugin that defines one is invoked with the
\* validation report (and the file), whether the report is valid or not, and
\* for an invalid report the validation error is raised only after all
\* afterValidation hooks have completed.  (A hook that raises ends the call
\* there.)
C23_PostValidationAlwaysRuns ==
    \A k \in DOMAIN pipes :
        LET pipe  == pipes[k]
            hooks == Defining(plugins, "afterValidation")
            calls == Events(pipe, "afterValidation")
        IN pipe.report # <<>> =>
              /\ \A n \in DOMAIN calls :
                    /\ calls[n].plugin = hooks[n].name
                    /\ calls[n].args = <<pipe.report[1], pipe.file>>
              /\ (pipe.pc # "afterValidation" /\ ~RaisedIn(pipe, "afterValidation")) =>
                    Len(calls) = Len(hooks)
              /\ (pipe.pc = "rejected" /\ ~Raised(pipe)) =>
                    /\ ~pipe.report[1].valid
                    /\ Len(calls) = Len(hooks)
                    /\ pipe.log[Len(pipe.log)].event \in {"validateFile", "afterValidation"}


\* What process(file) returns when it runs alone with the plugins and the
\* config of the processor, the id apart.
Alone(file, id) ==
    LET before == Defining(plugins, "beforeProcess")
        after  == Defining(plugins, "afterProcess")
    IN CarriedProcessed(after, Len(after) + 1,
           [original |-> file,
            blob     |-> Carried(before, Len(before) + 1, file),
            metadata |-> [extractMetadata(file, 0) EXCEPT !.id = id]])

\* C24: for every interleaving of the pipelines started by processMany, the
\* ProcessedFile produced for a file equals the one process would produce
\* for that file alone with the same plugins and config; every hook of a
\* pipeline is handed a value made from that pipeline's own file, never the
\* in-flight value of another pipeline, and no two pipelines share an id.
C24_PipelinesIsolated ==
    \A k \in DOMAIN pipes :
        LET pipe   == pipes[k]
            before == Events(pipe, "beforeProcess")
            after  == Events(pipe, "afterProcess")
        IN call = "processMany" =>
              /\ pipe.file = batch.files[k]
              /\ \A i \in DOMAIN pipe.log :
                    pipe.log[i].event \in {"validateFile", "extractMetadata"} =>
                        pipe.log[i].args = <<pipe.file>>
              /\ pipe.report # <<>> => pipe.report[1] = ValidateFile(pipe.file, validator)
              /\ \A n \in DOMAIN before :
                    before[n].args =
                        <<Carried(Defining(plugins, "beforeProcess"), n, pipe.file), config>>
              /\ \A n \in DOMAIN after :
                    /\ after[n].args[1].original = pipe.file
                    /\ after[n].args[1].metadata.name = pipe.file.name
                    /\ after[n].args[1].blob = pipe.blob[1]
              /\ pipe.pc = "fulfilled" =>
                    pipe.value = <<Alone(pipe.file, pipe.processed[1].metadata.id)>>
              /\ \A other \in DOMAIN pipes :
                    (other # k /\ pipe.processed # <<>> /\ pipes[other].processed # <<>>) =>
                        pipes[other].processed[1].metadata.id # pipe.processed[1].metadata.id

C24_Witness ==
    /\ call = "processMany"
    /\ Len(pipes) = 2
    /\ pipes[1].file # pipes[2].file
    /\ pipes[1].pc = "fulfilled"
    /\ pipes[2].pc = "fulfilled"
    /\ batch.order = <<2, 1>>
    /\ pipes[1].processed[1].metadata.id = 2
    /\ pipes[1].value[1].blob # pipes[1].file
    /\ pipes[2].value[1].blob # pipes[2].file


\* The configurations the processor can have: the constructor's, with any
\* of the updates merged in.
LiveConfigs == {EmptyConfig} \cup {Spread(EmptyConfig, u) : u \in LiveUpdates}

\* C25: every stage and the validation of one process call use one and the
\* same configuration, even when updateConfig is called while the call is
\* suspended in a hook: the config passed to the beforeValidation hooks, the
\* config the file is validated against and the config passed to the
\* beforeProcess hooks are equal.
C25_OneConfigPerCall ==
    \A k \in DOMAIN pipes :
        \E c \in LiveConfigs :
            LET pipe == pipes[k]
            IN /\ \A i \in DOMAIN pipe.log :
                     pipe.log[i].event \in {"beforeValidation", "beforeProcess"} =>
                         pipe.log[i].args[2] = c
               /\ pipe.report # <<>> =>
                     pipe.report[1] = ValidateFile(pipe.file, NewFileValidator(c))


\* The loop of runHook of the stage the pipe is in has ended.
LoopEnded(pipe) ==
    InHook(pipe) /\ pipe.awaiting = 0 /\ NextHook(pipe) > Len(pipe.arr)

\* C26: the plugins whose hook fires in a stage of process are exactly the
\* plugins registered when that stage began: a plugin added by use or
\* removed by removePlugin while the stage is suspended inside a hook does
\* not change which hooks fire in that stage.
C26_StagePluginsFixed ==
    \A k \in DOMAIN pipes :
        LET pipe  == pipes[k]
            fired == [i \in DOMAIN Events(pipe, pipe.pc) |-> Events(pipe, pipe.pc)[i].plugin]
            hooks == Names(Defining(pipe.registered, pipe.pc))
        IN InHook(pipe) =>
              /\ Len(fired) <= Len(hooks)
              /\ fired = SubSeq(hooks, 1, Len(fired))
              /\ LoopEnded(pipe) => fired = hooks


Ended(pipe) == pipe.pc \in {"fulfilled", "rejected"}

\* C27: when one pipeline started by processMany fails, processMany rejects
\* with that pipeline's error at that moment, without waiting for the other
\* pipelines, and the other pipelines are not cancelled: a failure changes
\* no other pipeline, and each of them runs on to its own end although its
\* result is discarded.
C27_FailFastNoCancel ==
    /\ []((call = "processMany" /\ \E k \in DOMAIN pipes : pipes[k].pc = "rejected") =>
             /\ batch.status = "rejected"
             /\ batch.results = <<>>
             /\ \E k \in DOMAIN pipes :
                   pipes[k].pc = "rejected" /\ batch.error = pipes[k].error)
    /\ [][(batch.status = "pending" /\ batch'.status = "rejected") =>
             \E k \in DOMAIN pipes :
                 /\ pipes[k].pc # "rejected"
                 /\ pipes'[k].pc = "rejected"
                 /\ batch'.error = pipes'[k].error
                 /\ \A other \in DOMAIN pipes :
                       other # k => pipes'[other] = pipes[other]]_vars
    /\ [][batch.status = "rejected" =>
             /\ batch'.status = "rejected"
             /\ batch'.error = batch.error
             /\ batch'.results = <<>>]_vars
    /\ (batch.status = "rejected") ~> (\A k \in DOMAIN pipes : Ended(pipes[k]))

C27_Witness ==
    /\ call = "processMany"
    /\ batch.status = "rejected"
    /\ Len(pipes) = 2
    /\ pipes[1].pc = "rejected"
    /\ batch.error = pipes[1].error
    /\ pipes[2].pc = "fulfilled"
    /\ Len(Events(pipes[2], "afterProcess")) >= 1

====
